---- MODULE Spec2Model ----
(***************************************************************************)
(* World-map and lore backend (src/main.py, src/schemas.py): the token     *)
(* guard, the route table, and the handlers over the four collections      *)
(* poi, lorearticle, category and mapasset.                                *)
(*                                                                         *)
(* Python values are wrapped: None is <<>> and a value v is <<v>>, so that *)
(* an Optional field and a required field share one representation.        *)
(* Strings that the code inspects character by character (path segments,   *)
(* titles, search text) are tuples of one-character strings.               *)
(***************************************************************************)
EXTENDS Integers, Sequences, FiniteSets, TLC

\* ------------------------------------------------------------------ bounds
\* Distinct values os.urandom(16).hex() takes in the model.
NumTokens == 1
\* ObjectIds the store hands out, i.e. documents ever inserted.
MaxOid == 2
\* set_map requests in flight at once (ConcSpec).
NumWorkers == 2

\* --------------------------------------------------------- python values
None == <<>>
Some(v) == <<v>>
IsNone(v) == v = <<>>
Val(v) == v[1]

\* ---------------------------------------------------------------- strings
HexDigits == <<"0","1","2","3","4","5","6","7","8","9","a","b","c","d","e","f">>
UpperHex == <<"0","1","2","3","4","5","6","7","8","9","A","B","C","D","E","F">>
LowerCase == <<"a","b","c","d","e","f","g","h","i","j","k","l","m","n","o","p","q","r","s","t","u","v","w","x","y","z">>
UpperCase == <<"A","B","C","D","E","F","G","H","I","J","K","L","M","N","O","P","Q","R","S","T","U","V","W","X","Y","Z">>

\* str.lower() of one character.
ToLower ==
  [c \in {UpperCase[i] : i \in 1..Len(UpperCase)} |->
     LowerCase[CHOOSE i \in 1..Len(UpperCase) : UpperCase[i] = c]]
Lower(c) == IF c \in DOMAIN ToLower THEN ToLower[c] ELSE c

LowerStr(s) == [i \in 1..Len(s) |-> Lower(s[i])]

\* ---------------------------------------------------------------- ObjectId
\* A bson ObjectId is 12 bytes, written as 24 hex digits; held here as its
\* 24 nibbles.
OidLen == 24

HexChars == {HexDigits[i] : i \in 1..Len(HexDigits)} \cup {UpperHex[i] : i \in 1..Len(UpperHex)}
HexValues == [c \in HexChars |-> (CHOOSE i \in 1..Len(HexDigits) : HexDigits[i] = c \/ UpperHex[i] = c) - 1]
IsHexChar(c) == c \in HexChars
HexVal(c) == HexValues[c]

\* ObjectId(s) raises InvalidId unless s is 24 hex digits (either case).
ValidOid(s) == Len(s) = OidLen /\ \A i \in 1..Len(s) : IsHexChar(s[i])
\* ObjectId(s) for a valid s: the nibbles.
ObjectId(s) == [i \in 1..Len(s) |-> HexVal(s[i])]
\* str(oid): lower-case hex.
oid_str(oid) == [i \in 1..Len(oid) |-> HexDigits[oid[i] + 1]]

\* The n-th ObjectId the store generates: a fixed process prefix and the
\* counter in the low nibbles.
GenObjectId(n) ==
  [i \in 1..OidLen |-> IF i = OidLen THEN n % 16
                       ELSE IF i = OidLen - 1 THEN (n \div 16) % 16
                       ELSE IF i = 1 THEN 10 ELSE 0]

\* ------------------------------------------------------------ route table
API == <<"a","p","i">>
ADMIN == <<"a","d","m","i","n">>
LORE == <<"l","o","r","e">>
POIS == <<"p","o","i","s">>
MAP == <<"m","a","p">>
LOGIN == <<"l","o","g","i","n">>
CATEGORIES == <<"c","a","t","e","g","o","r","i","e","s">>
SEARCH == <<"s","e","a","r","c","h">>
TEST == <<"t","e","s","t">>
PARAM == <<"{","i","d","}">>

\* The routes in the order the decorators register them.
Routes == <<
  [method |-> "GET",    path |-> <<>>,                          handler |-> "root"],
  [method |-> "GET",    path |-> <<TEST>>,                      handler |-> "test_database"],
  [method |-> "GET",    path |-> <<API, POIS>>,                 handler |-> "get_pois"],
  [method |-> "GET",    path |-> <<API, LORE, PARAM>>,          handler |-> "get_lore_article"],
  [method |-> "GET",    path |-> <<API, LORE, SEARCH>>,         handler |-> "search_lore"],
  [method |-> "GET",    path |-> <<API, MAP>>,                  handler |-> "public_get_map"],
  [method |-> "POST",   path |-> <<API, ADMIN, LOGIN>>,         handler |-> "admin_login"],
  [method |-> "GET",    path |-> <<API, ADMIN, MAP>>,           handler |-> "get_map"],
  [method |-> "POST",   path |-> <<API, ADMIN, MAP>>,           handler |-> "set_map"],
  [method |-> "GET",    path |-> <<API, ADMIN, POIS>>,          handler |-> "admin_list_pois"],
  [method |-> "POST",   path |-> <<API, ADMIN, POIS>>,          handler |-> "admin_create_poi"],
  [method |-> "PUT",    path |-> <<API, ADMIN, POIS, PARAM>>,   handler |-> "admin_update_poi"],
  [method |-> "DELETE", path |-> <<API, ADMIN, POIS, PARAM>>,   handler |-> "admin_delete_poi"],
  [method |-> "GET",    path |-> <<API, ADMIN, LORE>>,          handler |-> "admin_list_lore"],
  [method |-> "POST",   path |-> <<API, ADMIN, LORE>>,          handler |-> "admin_create_lore"],
  [method |-> "PUT",    path |-> <<API, ADMIN, LORE, PARAM>>,   handler |-> "admin_update_lore"],
  [method |-> "DELETE", path |-> <<API, ADMIN, LORE, PARAM>>,   handler |-> "admin_delete_lore"],
  [method |-> "GET",    path |-> <<API, ADMIN, CATEGORIES>>,    handler |-> "admin_list_categories"],
  [method |-> "POST",   path |-> <<API, ADMIN, CATEGORIES>>,    handler |-> "admin_create_category"],
  [method |-> "PUT",    path |-> <<API, ADMIN, CATEGORIES, PARAM>>, handler |-> "admin_update_category"],
  [method |-> "DELETE", path |-> <<API, ADMIN, CATEGORIES, PARAM>>, handler |-> "admin_delete_category"] >>

\* A "{name}" segment of a route path takes any non-empty request segment.
IsParam(seg) == Len(seg) > 0 /\ seg[1] = "{"

Match(pattern, path) ==
  /\ Len(pattern) = Len(path)
  /\ \A i \in 1..Len(pattern) :
       IF IsParam(pattern[i]) THEN Len(path[i]) > 0 ELSE pattern[i] = path[i]

MatchingRoutes(method, path) ==
  {i \in 1..Len(Routes) : Routes[i].method = method /\ Match(Routes[i].path, path)}

\* The first registered route that matches gets the request.
Dispatch(method, path) ==
  LET idx == MatchingRoutes(method, path)
  IN IF idx = {} THEN "not_found"
     ELSE Routes[CHOOSE i \in idx : \A j \in idx : i <= j].handler

\* ------------------------------------------------------------------ state
VARIABLES
  TOKENS,       \* the in-memory set of issued tokens
  poi,          \* collection "poi", in insertion order
  lorearticle,  \* collection "lorearticle"
  category,     \* collection "category"
  mapasset,     \* collection "mapasset"
  oidCounter,   \* ObjectIds generated so far
  inflight,     \* per worker: a set_map request between its two store calls
  resp          \* the response sent last

vars == <<TOKENS, poi, lorearticle, category, mapasset, oidCounter, inflight, resp>>

\* What a handler reads and writes: the token set, the store, the response.
St ==
  [TOKENS |-> TOKENS, poi |-> poi, lorearticle |-> lorearticle, category |-> category,
   mapasset |-> mapasset, oidCounter |-> oidCounter, resp |-> resp]

\* The handler's outcome becomes the next state.
Apply(out) ==
  /\ TOKENS' = out.TOKENS
  /\ poi' = out.poi /\ lorearticle' = out.lorearticle
  /\ category' = out.category /\ mapasset' = out.mapasset
  /\ oidCounter' = out.oidCounter
  /\ resp' = out.resp

\* --------------------------------------------------------------- settings
ADMIN_USERNAME == "admin"
ADMIN_PASSWORD == "changeme"

\* ----------------------------------------------------------------- inputs
\* Token strings: the values urandom can give. A request carries one of them
\* (issued or not) or no token.
TokenValues == 1..NumTokens
RequestTokens == {None} \cup {Some(t) : t \in TokenValues}

Usernames == {ADMIN_USERNAME, "guest"}
Passwords == {ADMIN_PASSWORD, "letmein"}

\* Path segments sent in place of an id: the string of each ObjectId the store
\* can generate and "not-an-id"; under /api/lore also the first id in upper
\* case and "search".
NOT_AN_ID == <<"n","o","t","-","a","n","-","i","d">>
UpperStr(s) == [i \in 1..Len(s) |-> IF IsHexChar(s[i]) THEN UpperHex[HexVal(s[i]) + 1] ELSE s[i]]
IdSegments == {oid_str(GenObjectId(n)) : n \in 1..MaxOid} \cup {NOT_AN_ID}
LoreSegments == IdSegments \cup {UpperStr(oid_str(GenObjectId(1))), SEARCH}

\* Titles and search text.
THE_DARK_FOREST == <<"T","h","e"," ","D","a","r","k"," ","F","o","r","e","s","t">>
OLD_SEA == <<"O","l","d"," ","S","e","a">>
SearchTexts == {<<"f","o","r","e","s","t">>}

\* Coordinates are whole floats here: -1.0, 0.0, 1.0, 2.0.
CoordPairs == {<<0, 1>>, <<2, 0>>, <<0, -1>>}

POIPayloads ==
  {[name |-> Some("gate"), x_coordinate |-> Some(c[1]), y_coordinate |-> Some(c[2]),
    icon_type |-> Some("marker"), lore_article_id |-> None] : c \in CoordPairs}

NoPOIUpdate ==
  [name |-> None, x_coordinate |-> None, y_coordinate |-> None,
   icon_type |-> None, lore_article_id |-> None]
POIUpdatePayloads ==
  { NoPOIUpdate, [NoPOIUpdate EXCEPT !.x_coordinate = Some(2)] }

LorePayloads ==
  {[title |-> Some(t), short_description |-> Some(OLD_SEA), main_image_url |-> None,
    content_body |-> Some("<p>text</p>"), category_ids |-> Some(<<>>), slug |-> None] : t \in {THE_DARK_FOREST}}

NoLoreUpdate ==
  [title |-> None, short_description |-> None, main_image_url |-> None,
   content_body |-> None, category_ids |-> None, slug |-> None]
LoreUpdatePayloads ==
  { NoLoreUpdate, [NoLoreUpdate EXCEPT !.title = Some(THE_DARK_FOREST)] }

CategoryPayloads ==
  {[name |-> Some("Places"), slug |-> Some("places"), description |-> None]}

NoCategoryUpdate == [name |-> None, slug |-> None, description |-> None]
CategoryUpdatePayloads ==
  { NoCategoryUpdate, [NoCategoryUpdate EXCEPT !.name = Some("Places")] }

MapPayloads ==
  { [image_url |-> Some("map.png"), width |-> None, height |-> None],
    [image_url |-> None, width |-> None, height |-> None] }

\* ------------------------------------------------------------ store calls
Matching(coll, oid) == {i \in 1..Len(coll) : coll[i]._id = oid}
Least(S) == CHOOSE i \in S : \A j \in S : i <= j

\* collection.find_one({"_id": oid})
find_one(coll, oid) ==
  IF Matching(coll, oid) = {} THEN None ELSE Some(coll[Least(Matching(coll, oid))])

\* A faulty find_one(sort=...) that forgets the sort and gives the first
\* document inserted.
find_latest_mut(coll) ==
  IF Len(coll) = 0 THEN {None} ELSE {Some(coll[1])}

\* collection.find_one(sort=[("version", -1)]): what the call may return, a
\* document of greatest version (the store breaks ties as it likes) or None.
find_latest(coll) ==
  IF Len(coll) = 0 THEN {None}
  ELSE {Some(coll[i]) : i \in {i \in 1..Len(coll) :
          \A j \in 1..Len(coll) : Val(coll[j].version) <= Val(coll[i].version)}}

\* collection.update_one({"_id": oid}, {"$set": fields})
update_one(coll, oid, fields) ==
  IF Matching(coll, oid) = {} THEN coll
  ELSE [coll EXCEPT ![Least(Matching(coll, oid))] =
          [k \in DOMAIN @ \cup DOMAIN fields |-> IF k \in DOMAIN fields THEN fields[k] ELSE @[k]]]

\* A faulty delete_one that ignores its filter and removes the first document.
delete_one_mut(coll, oid) ==
  IF Len(coll) = 0 THEN coll ELSE Tail(coll)

\* collection.delete_one({"_id": oid})
delete_one(coll, oid) ==
  IF Matching(coll, oid) = {} THEN coll
  ELSE LET at == Least(Matching(coll, oid))
       IN [j \in 1..(Len(coll) - 1) |-> IF j < at THEN coll[j] ELSE coll[j + 1]]

\* create_document(collection_name, data): inserts the model's fields under
\* the n-th generated ObjectId.
create_document(coll, data, n) ==
  Append(coll, [k \in DOMAIN data \cup {"_id"} |-> IF k = "_id" THEN GenObjectId(n) ELSE data[k]])

\* The id create_document returns: str(inserted_id).
new_id(n) == oid_str(GenObjectId(n))

\* get_documents(collection_name): every document, in the store's order.
get_documents(coll) == coll

\* ---------------------------------------------------------------- helpers
\* doc_to_public on a document: "_id" leaves, "id" is its string.
doc_to_public(d) ==
  [k \in (DOMAIN d \ {"_id"}) \cup {"id"} |-> IF k = "id" THEN oid_str(d["_id"]) ELSE d[k]]

\* A faulty update_doc that keeps the absent fields.
update_doc_mut(payload) == payload

\* {k: v for k, v in payload.model_dump().items() if v is not None}
update_doc(payload) ==
  [k \in {f \in DOMAIN payload : ~IsNone(payload[f])} |-> payload[k]]

\* ----------------------------------------------------------------- schemas
\* POI: name, x_coordinate, y_coordinate required; both coordinates ge=0, le=1.
POIValid(p) ==
  /\ ~IsNone(p.name) /\ ~IsNone(p.x_coordinate) /\ ~IsNone(p.y_coordinate)
  /\ 0 <= Val(p.x_coordinate) /\ Val(p.x_coordinate) <= 1
  /\ 0 <= Val(p.y_coordinate) /\ Val(p.y_coordinate) <= 1

\* POIUpdate: every field Optional, no range on the coordinates.
POIUpdateValid(p) == TRUE

\* LoreArticle: title, short_description, content_body required.
LoreValid(p) == ~IsNone(p.title) /\ ~IsNone(p.short_description) /\ ~IsNone(p.content_body)

\* Category: name, slug required.
CategoryValid(p) == ~IsNone(p.name) /\ ~IsNone(p.slug)

\* MapAssetUpdate: image_url required.
MapAssetUpdateValid(p) == ~IsNone(p.image_url)

\* MapAsset(image_url=..., width=..., height=..., version=version)
MapAsset(payload, version) ==
  [image_url |-> payload.image_url, width |-> payload.width,
   height |-> payload.height, version |-> Some(version)]

\* -------------------------------------------------------------- responses
Response(status, kind, body) == [status |-> status, kind |-> kind, body |-> body]

HTTPException(status, detail) == Response(status, "error", detail)
Unauthorized == HTTPException(401, "Unauthorized")
\* The framework's answer to a body or query that fails its model.
Unprocessable == HTTPException(422, "validation error")

Reply(S, r) == [S EXCEPT !.resp = r]

\* doc_to_public(doc) if doc else None
public_or_null(doc) == IF IsNone(doc) THEN None ELSE Some(doc_to_public(Val(doc)))

\* ------------------------------------------------------------- auth guard
\* A faulty guard that accepts any token that is present.
require_admin_mut(S, token) == ~IsNone(token)

\* require_admin: passes iff the token is present and in TOKENS.
require_admin(S, token) == ~(IsNone(token) \/ Val(token) \notin S.TOKENS)

\* ---------------------------------------------------------- public routes
\* root
root(S) == Reply(S, Response(200, "message", "Backend running"))

\* test_database, with the database connected: a status report. The fields
\* read from the environment and the collection names are left out of it.
test_database(S) ==
  Reply(S, Response(200, "status", [backend |-> "Running", database |-> "Connected"]))

\* get_pois: the fixed public field set of every POI.
get_pois(S) ==
  LET pois == get_documents(S.poi)
  IN Reply(S, Response(200, "list",
       [i \in 1..Len(pois) |->
          [id |-> oid_str(pois[i]["_id"]), name |-> pois[i].name,
           x_coordinate |-> pois[i].x_coordinate, y_coordinate |-> pois[i].y_coordinate,
           lore_article_id |-> pois[i].lore_article_id, icon_type |-> pois[i].icon_type]]))

\* A faulty get_lore_article that reports a malformed id as not found.
get_lore_article_mut(S, article_id) ==
  IF ~ValidOid(article_id)
  THEN Reply(S, HTTPException(404, "Article not found"))
  ELSE LET doc == find_one(S.lorearticle, ObjectId(article_id))
       IN IF IsNone(doc)
          THEN Reply(S, HTTPException(404, "Article not found"))
          ELSE LET public == doc_to_public(Val(doc))
               IN Reply(S, Response(200, "doc",
                    Some([id |-> public.id, title |-> public.title,
                          short_description |-> public.short_description,
                          main_image_url |-> public.main_image_url,
                          content_body |-> public.content_body])))

\* get_lore_article(article_id)
get_lore_article(S, article_id) ==
  IF ~ValidOid(article_id)
  THEN Reply(S, HTTPException(400, "Invalid article id"))
  ELSE LET doc == find_one(S.lorearticle, ObjectId(article_id))
       IN IF IsNone(doc)
          THEN Reply(S, HTTPException(404, "Article not found"))
          ELSE LET public == doc_to_public(Val(doc))
               IN Reply(S, Response(200, "doc",
                    Some([id |-> public.id, title |-> public.title,
                          short_description |-> public.short_description,
                          main_image_url |-> public.main_image_url,
                          content_body |-> public.content_body])))

\* Whether sub occurs in text.
Contains(text, sub) ==
  \E k \in 0..(Len(text) - Len(sub)) : \A i \in 1..Len(sub) : text[k + i] = sub[i]

\* {"$regex": q, "$options": "i"} for a q of letters only, where the regular
\* expression is the text itself.
RegexI(text, q) == Contains(LowerStr(text), LowerStr(q))

\* .limit(20)
SearchLimit == 20

\* search_lore(q)
search_lore(S, q) ==
  IF IsNone(q) THEN Reply(S, Unprocessable)
  ELSE LET hit(d) == \/ RegexI(Val(d.title), Val(q))
                     \/ RegexI(Val(d.short_description), Val(q))
           found == SelectSeq(S.lorearticle, hit)
           results == SubSeq(found, 1, IF Len(found) < SearchLimit THEN Len(found) ELSE SearchLimit)
       IN Reply(S, Response(200, "list",
            [i \in 1..Len(results) |->
               [id |-> oid_str(results[i]["_id"]), title |-> results[i].title,
                short_description |-> results[i].short_description]]))

\* GET /api/lore/<segment>?q=<q>, answered by the handler the router chose.
lore_get(S, handler, segment, q) ==
  IF handler = "get_lore_article" THEN get_lore_article(S, segment) ELSE search_lore(S, q)

\* public_get_map; doc is what find_one(sort=version desc) returned.
public_get_map(S, doc) == Reply(S, Response(200, "map", public_or_null(doc)))

\* ------------------------------------------------------------------ login
\* A faulty comparison that leaves the password unchecked.
credentials_ok_mut(username, password) == username = ADMIN_USERNAME

\* payload.username == ADMIN_USERNAME and payload.password == ADMIN_PASSWORD
credentials_ok(username, password) ==
  username = ADMIN_USERNAME /\ password = ADMIN_PASSWORD

\* TOKENS.add(token)
add_token(tokens, token) == tokens \cup {token}

\* admin_login; token is what os.urandom gives this time.
admin_login(S, username, password, token) ==
  IF credentials_ok(username, password)
  THEN [S EXCEPT !.TOKENS = add_token(S.TOKENS, token),
                 !.resp = Response(200, "token", token)]
  ELSE Reply(S, HTTPException(401, "Invalid credentials"))

\* -------------------------------------------------------------- map asset
\* get_map; doc is what find_one(sort=version desc) returned.
get_map(S, token, doc) ==
  IF ~require_admin(S, token) THEN Reply(S, Unauthorized)
  ELSE Reply(S, Response(200, "map", public_or_null(doc)))

\* A faulty version computation that forgets the increment.
next_version_mut(current) ==
  IF IsNone(current) THEN 1 ELSE Val(Val(current).version)

\* version = (current.get("version", 0) + 1) if current else 1
next_version(current) ==
  IF IsNone(current) THEN 1 ELSE Val(Val(current).version) + 1

\* set_map after its find_one: insert the new version, fetch it, return it.
set_map_insert(S, payload, version) ==
  LET n == S.oidCounter + 1
      after == create_document(S.mapasset, MapAsset(payload, version), n)
      created == find_one(after, ObjectId(new_id(n)))
  IN [S EXCEPT !.mapasset = after, !.oidCounter = n,
               !.resp = Response(200, "doc", public_or_null(created))]

\* set_map, one request from start to end; current is what its find_one returned.
set_map(S, token, payload, current) ==
  IF ~require_admin(S, token) THEN Reply(S, Unauthorized)
  ELSE IF ~MapAssetUpdateValid(payload) THEN Reply(S, Unprocessable)
  ELSE set_map_insert(S, payload, next_version(current))

\* --------------------------------------------------- list, create, update, delete
\* The handlers of the three collections are the same code over collection c.
\* admin_list_*: every document, in public shape.
admin_list(S, c, token) ==
  IF ~require_admin(S, token) THEN Reply(S, Unauthorized)
  ELSE LET docs == get_documents(S[c])
       IN Reply(S, Response(200, "list", [i \in 1..Len(docs) |-> doc_to_public(docs[i])]))

\* admin_create_*: validate, insert, fetch, return in public shape.
admin_create(S, c, token, payload, valid) ==
  IF ~require_admin(S, token) THEN Reply(S, Unauthorized)
  ELSE IF ~valid THEN Reply(S, Unprocessable)
  ELSE LET n == S.oidCounter + 1
           after == create_document(S[c], payload, n)
           created == find_one(after, ObjectId(new_id(n)))
       IN [S EXCEPT ![c] = after, !.oidCounter = n,
                    !.resp = Response(200, "doc", public_or_null(created))]

\* admin_update_*: parse the id, drop the None fields, $set the rest, fetch.
admin_update(S, c, token, id, payload) ==
  IF ~require_admin(S, token) THEN Reply(S, Unauthorized)
  ELSE IF ~ValidOid(id) THEN Reply(S, HTTPException(400, "Invalid id"))
  ELSE IF DOMAIN update_doc(payload) = {}
  THEN Reply(S, Response(200, "ack", [updated |-> FALSE]))
  ELSE LET after == update_one(S[c], ObjectId(id), update_doc(payload))
           updated == find_one(after, ObjectId(id))
       IN [S EXCEPT ![c] = after, !.resp = Response(200, "doc", public_or_null(updated))]

\* admin_delete_*: parse the id, delete_one, acknowledge.
admin_delete(S, c, token, id) ==
  IF ~require_admin(S, token) THEN Reply(S, Unauthorized)
  ELSE IF ~ValidOid(id) THEN Reply(S, HTTPException(400, "Invalid id"))
  ELSE [S EXCEPT ![c] = delete_one(S[c], ObjectId(id)),
                 !.resp = Response(200, "ack", [deleted |-> TRUE])]

admin_list_pois(S, token) == admin_list(S, "poi", token)
admin_create_poi(S, token, payload) == admin_create(S, "poi", token, payload, POIValid(payload))
admin_update_poi(S, token, id, payload) ==
  IF require_admin(S, token) /\ ~POIUpdateValid(payload) THEN Reply(S, Unprocessable)
  ELSE admin_update(S, "poi", token, id, payload)
admin_delete_poi(S, token, id) == admin_delete(S, "poi", token, id)

admin_list_lore(S, token) == admin_list(S, "lorearticle", token)
admin_create_lore(S, token, payload) == admin_create(S, "lorearticle", token, payload, LoreValid(payload))
admin_update_lore(S, token, id, payload) == admin_update(S, "lorearticle", token, id, payload)
admin_delete_lore(S, token, id) == admin_delete(S, "lorearticle", token, id)

admin_list_categories(S, token) == admin_list(S, "category", token)
admin_create_category(S, token, payload) == admin_create(S, "category", token, payload, CategoryValid(payload))
admin_update_category(S, token, id, payload) == admin_update(S, "category", token, id, payload)
admin_delete_category(S, token, id) == admin_delete(S, "category", token, id)

\* ------------------------------------------------------------------- init
Workers == 1..NumWorkers
Idle == [pc |-> "idle", version |-> 0, payload |-> None]

NoResponse == Response(0, "none", None)

Init ==
  /\ TOKENS = {}
  /\ poi = <<>> /\ lorearticle = <<>> /\ category = <<>> /\ mapasset = <<>>
  /\ oidCounter = 0
  /\ inflight = [w \in Workers |-> Idle]
  /\ resp = NoResponse

\* ---------------------------------------------------------------- actions
\* One request, handled from start to end. The store hands out at most
\* MaxOid ObjectIds.
Serve(out) == out.oidCounter <= MaxOid /\ Apply(out) /\ UNCHANGED inflight

Root == Serve(root(St))

TestDatabase == Serve(test_database(St))

GetPois == Serve(get_pois(St))

LoreGet(handler, segment, q) ==
  /\ handler \in {"get_lore_article", "search_lore"}
  /\ Serve(lore_get(St, handler, segment, q))

PublicGetMap == \E doc \in find_latest(mapasset) : Serve(public_get_map(St, doc))

AdminLogin(username, password, token) == Serve(admin_login(St, username, password, token))

GetMap(token) == \E doc \in find_latest(mapasset) : Serve(get_map(St, token, doc))

SetMap(token, payload) ==
  \E current \in find_latest(mapasset) : Serve(set_map(St, token, payload, current))

AdminListPois(token) == Serve(admin_list_pois(St, token))
AdminCreatePoi(token, payload) == Serve(admin_create_poi(St, token, payload))
AdminUpdatePoi(token, id, payload) == Serve(admin_update_poi(St, token, id, payload))
AdminDeletePoi(token, id) == Serve(admin_delete_poi(St, token, id))

AdminListLore(token) == Serve(admin_list_lore(St, token))
AdminCreateLore(token, payload) == Serve(admin_create_lore(St, token, payload))
AdminUpdateLore(token, id, payload) == Serve(admin_update_lore(St, token, id, payload))
AdminDeleteLore(token, id) == Serve(admin_delete_lore(St, token, id))

AdminListCategories(token) == Serve(admin_list_categories(St, token))
AdminCreateCategory(token, payload) == Serve(admin_create_category(St, token, payload))
AdminUpdateCategory(token, id, payload) == Serve(admin_update_category(St, token, id, payload))
AdminDeleteCategory(token, id) == Serve(admin_delete_category(St, token, id))

\* set_map as its two store calls, with other requests free to run between
\* them: worker w reads the current version ...
SetMapFind(w, token, payload) ==
  /\ inflight[w].pc = "idle"
  /\ IF ~require_admin(St, token)
     THEN Apply(Reply(St, Unauthorized)) /\ UNCHANGED inflight
     ELSE IF ~MapAssetUpdateValid(payload)
     THEN Apply(Reply(St, Unprocessable)) /\ UNCHANGED inflight
     ELSE /\ oidCounter + Cardinality({v \in Workers : inflight[v].pc = "found"}) < MaxOid
          /\ \E current \in find_latest(mapasset) :
               inflight' = [inflight EXCEPT ![w] =
                 [pc |-> "found", version |-> next_version(current), payload |-> Some(payload)]]
          /\ UNCHANGED <<TOKENS, poi, lorearticle, category, mapasset, oidCounter, resp>>

\* ... and later inserts the document with the version it computed.
SetMapInsert(w) ==
  /\ inflight[w].pc = "found"
  /\ Apply(set_map_insert(St, Val(inflight[w].payload), inflight[w].version))
  /\ inflight' = [inflight EXCEPT ![w] = Idle]

\* ---------------------------------------------------------- specification
\* The server: a request line goes to the handler Dispatch gives it.
Methods == {"GET", "POST", "PUT", "DELETE"}
Paths ==
  {<<>>, <<TEST>>, <<API, POIS>>, <<API, MAP>>, <<API, ADMIN, LOGIN>>, <<API, ADMIN, MAP>>,
   <<API, ADMIN, POIS>>, <<API, ADMIN, LORE>>, <<API, ADMIN, CATEGORIES>>}
    \cup {<<API, LORE, s>> : s \in LoreSegments}
    \cup {<<API, ADMIN, c, id>> : c \in {POIS, LORE, CATEGORIES}, id \in IdSegments}
\* Dispatch over the request lines sent, worked out once.
Handler == [method \in Methods, path \in Paths |-> Dispatch(method, path)]
Routed(method, path, handler) == Handler[method, path] = handler

\* GET /api/lore/<id> without a query, GET /api/lore/search with and without q.
LoreRequests ==
  {[segment |-> s, q |-> None] : s \in LoreSegments}
    \cup {[segment |-> SEARCH, q |-> Some(t)] : t \in SearchTexts}

\* Every route but POST /api/admin/map.
OtherRoutes ==
  \/ Routed("GET", <<>>, "root") /\ Root
  \/ Routed("GET", <<TEST>>, "test_database") /\ TestDatabase
  \/ Routed("GET", <<API, POIS>>, "get_pois") /\ GetPois
  \/ \E r \in LoreRequests :
       LoreGet(Handler["GET", <<API, LORE, r.segment>>], r.segment, r.q)
  \/ Routed("GET", <<API, MAP>>, "public_get_map") /\ PublicGetMap
  \/ /\ Routed("POST", <<API, ADMIN, LOGIN>>, "admin_login")
     /\ \E u \in Usernames, p \in Passwords, t \in TokenValues : AdminLogin(u, p, t)
  \/ /\ Routed("GET", <<API, ADMIN, MAP>>, "get_map")
     /\ \E token \in RequestTokens : GetMap(token)
  \/ /\ Routed("GET", <<API, ADMIN, POIS>>, "admin_list_pois")
     /\ \E token \in RequestTokens : AdminListPois(token)
  \/ /\ Routed("POST", <<API, ADMIN, POIS>>, "admin_create_poi")
     /\ \E token \in RequestTokens, payload \in POIPayloads : AdminCreatePoi(token, payload)
  \/ \E id \in IdSegments :
       /\ Routed("PUT", <<API, ADMIN, POIS, id>>, "admin_update_poi")
       /\ \E token \in RequestTokens, payload \in POIUpdatePayloads : AdminUpdatePoi(token, id, payload)
  \/ \E id \in IdSegments :
       /\ Routed("DELETE", <<API, ADMIN, POIS, id>>, "admin_delete_poi")
       /\ \E token \in RequestTokens : AdminDeletePoi(token, id)
  \/ /\ Routed("GET", <<API, ADMIN, LORE>>, "admin_list_lore")
     /\ \E token \in RequestTokens : AdminListLore(token)
  \/ /\ Routed("POST", <<API, ADMIN, LORE>>, "admin_create_lore")
     /\ \E token \in RequestTokens, payload \in LorePayloads : AdminCreateLore(token, payload)
  \/ \E id \in IdSegments :
       /\ Routed("PUT", <<API, ADMIN, LORE, id>>, "admin_update_lore")
       /\ \E token \in RequestTokens, payload \in LoreUpdatePayloads : AdminUpdateLore(token, id, payload)
  \/ \E id \in IdSegments :
       /\ Routed("DELETE", <<API, ADMIN, LORE, id>>, "admin_delete_lore")
       /\ \E token \in RequestTokens : AdminDeleteLore(token, id)
  \/ /\ Routed("GET", <<API, ADMIN, CATEGORIES>>, "admin_list_categories")
     /\ \E token \in RequestTokens : AdminListCategories(token)
  \/ /\ Routed("POST", <<API, ADMIN, CATEGORIES>>, "admin_create_category")
     /\ \E token \in RequestTokens, payload \in CategoryPayloads : AdminCreateCategory(token, payload)
  \/ \E id \in IdSegments :
       /\ Routed("PUT", <<API, ADMIN, CATEGORIES, id>>, "admin_update_category")
       /\ \E token \in RequestTokens, payload \in CategoryUpdatePayloads : AdminUpdateCategory(token, id, payload)
  \/ \E id \in IdSegments :
       /\ Routed("DELETE", <<API, ADMIN, CATEGORIES, id>>, "admin_delete_category")
       /\ \E token \in RequestTokens : AdminDeleteCategory(token, id)

\* Requests handled one after another.
Next ==
  \/ OtherRoutes
  \/ /\ Routed("POST", <<API, ADMIN, MAP>>, "set_map")
     /\ \E token \in RequestTokens, payload \in MapPayloads : SetMap(token, payload)

Spec == Init /\ [][Next]_vars

\* Requests that overlap: a set_map request is its two store calls, and any
\* request may run between them.
ConcNext ==
  \/ OtherRoutes
  \/ /\ Routed("POST", <<API, ADMIN, MAP>>, "set_map")
     /\ \E w \in Workers, token \in RequestTokens, payload \in MapPayloads : SetMapFind(w, token, payload)
  \/ \E w \in Workers : SetMapInsert(w)

ConcSpec == Init /\ [][ConcNext]_vars

\* ================================================================== claims
\* What the claims speak of, said without the handlers' own helpers.
SameStore(S, out) ==
  /\ out.poi = S.poi /\ out.lorearticle = S.lorearticle
  /\ out.category = S.category /\ out.mapasset = S.mapasset
  /\ out.oidCounter = S.oidCounter

IsUnauthorized(r) == r.status = 401 /\ r.kind = "error" /\ r.body = "Unauthorized"
IsAck(r, body) == r.status = 200 /\ r.kind = "ack" /\ r.body = body

\* The id strings that are 24 hex digits, by enumeration.
WellFormedIds == {oid_str(GenObjectId(n)) : n \in 1..MaxOid}
MalformedIds == {NOT_AN_ID, SEARCH}
\* The ObjectId a well-formed id string names (either case).
Named ==
  [id \in LoreSegments \ MalformedIds |->
     CHOOSE o \in {GenObjectId(n) : n \in 1..MaxOid} : oid_str(o) = LowerStr(id)]
OidOf(id) == Named[id]

Updates == [poi |-> POIUpdatePayloads, lorearticle |-> LoreUpdatePayloads, category |-> CategoryUpdatePayloads]
Collections == {"poi", "lorearticle", "category"}

UpdateOf(S, c, token, id, payload) ==
  CASE c = "poi" -> admin_update_poi(S, token, id, payload)
    [] c = "lorearticle" -> admin_update_lore(S, token, id, payload)
    [] c = "category" -> admin_update_category(S, token, id, payload)

DeleteOf(S, c, token, id) ==
  CASE c = "poi" -> admin_delete_poi(S, token, id)
    [] c = "lorearticle" -> admin_delete_lore(S, token, id)
    [] c = "category" -> admin_delete_category(S, token, id)

\* P holds of the outcome of every admin request (login aside) sent with token.
AllAdmin(S, token, P(_)) ==
  /\ \A doc \in find_latest(S.mapasset) : P(get_map(S, token, doc))
  /\ \A payload \in MapPayloads, current \in find_latest(S.mapasset) :
       P(set_map(S, token, payload, current))
  /\ P(admin_list_pois(S, token))
  /\ P(admin_list_lore(S, token))
  /\ P(admin_list_categories(S, token))
  /\ \A payload \in POIPayloads : P(admin_create_poi(S, token, payload))
  /\ \A payload \in LorePayloads : P(admin_create_lore(S, token, payload))
  /\ \A payload \in CategoryPayloads : P(admin_create_category(S, token, payload))
  /\ \A c \in Collections, id \in IdSegments :
       /\ \A payload \in Updates[c] : P(UpdateOf(S, c, token, id, payload))
       /\ P(DeleteOf(S, c, token, id))

\* C1: on every admin route other than login, a request with no token or with
\* a token outside the valid set is answered 401 Unauthorized and changes no
\* collection; a request with a token of the valid set, and so one with the
\* token a successful login has just returned, is not refused by the guard.
C1_AdminGuard ==
  LET Refused(out) ==
        \A o \in {out} : IsUnauthorized(o.resp) /\ SameStore(St, o) /\ o.TOKENS = TOKENS
      Admitted(out) == ~IsUnauthorized(out.resp)
  IN /\ \A token \in RequestTokens :
          IF token = None \/ Val(token) \notin TOKENS
          THEN AllAdmin(St, token, Refused)
          ELSE AllAdmin(St, token, Admitted)
     /\ (resp.kind = "token") => AllAdmin(St, Some(resp.body), Admitted)

\* An admin request was refused while a token was valid and a POI, created
\* through the guard, was stored.
C1_Witness ==
  IsUnauthorized(resp) /\ TOKENS # {} /\ Len(poi) > 0

\* C2: every stored POI has both coordinates in [0,1], whatever admin create,
\* update and delete requests came before.
C2_PoiCoordinatesInRange ==
  \A i \in 1..Len(poi) :
    /\ 0 <= Val(poi[i].x_coordinate) /\ Val(poi[i].x_coordinate) <= 1
    /\ 0 <= Val(poi[i].y_coordinate) /\ Val(poi[i].y_coordinate) <= 1

\* The greatest version stored, 0 for an empty collection.
MaxVersion(coll) ==
  IF Len(coll) = 0 THEN 0
  ELSE CHOOSE v \in {Val(coll[i].version) : i \in 1..Len(coll)} :
         \A i \in 1..Len(coll) : Val(coll[i].version) <= v

\* The public shape of a stored map asset.
PublicMap(d) ==
  [id |-> oid_str(d["_id"]), image_url |-> d.image_url, width |-> d.width,
   height |-> d.height, version |-> d.version]

IsMapDoc(r) == r.kind = "doc" /\ r.body # None /\ "version" \in DOMAIN Val(r.body)

\* C3: with set_map requests handled one after another, each inserts a map
\* asset whose version is the greatest stored version plus one (1 on an empty
\* collection) and answers with that document; so the stored versions are
\* 1, 2, ..., n in insertion order and the k-th answer carries version k.
C3_SequentialVersions ==
  /\ \A i \in 1..Len(mapasset) : Val(mapasset[i].version) = i
  /\ IsMapDoc(resp) => Val(resp.body) = PublicMap(mapasset[Len(mapasset)])
  /\ \A token \in RequestTokens, payload \in MapPayloads, current \in find_latest(mapasset) :
       (token # None /\ Val(token) \in TOKENS /\ payload.image_url # None) =>
         LET out == set_map(St, token, payload, current)
             n == Len(mapasset) + 1
         IN /\ Len(out.mapasset) = n
            /\ SubSeq(out.mapasset, 1, Len(mapasset)) = mapasset
            /\ Val(out.mapasset[n].version) = MaxVersion(mapasset) + 1
            /\ out.mapasset[n].image_url = payload.image_url
            /\ IsMapDoc(out.resp) /\ Val(out.resp.body) = PublicMap(out.mapasset[n])

\* Two set_map requests have been answered, the second with version 2.
C3_Witness ==
  /\ Len(mapasset) = 2 /\ IsMapDoc(resp)
  /\ Val(resp.body).version = Some(2) /\ mapasset[1].version = Some(1)

\* The current map asset as the routes should give it: the stored document
\* of greatest version in public shape, null when there is none.
CurrentMap ==
  IF Len(mapasset) = 0 THEN None
  ELSE Some(PublicMap(
         mapasset[CHOOSE i \in 1..Len(mapasset) : Val(mapasset[i].version) = MaxVersion(mapasset)]))

C4_CurrentIsLatest ==
  /\ (resp.kind = "map") => resp.body = CurrentMap
  /\ \A doc \in find_latest(mapasset) :
       /\ public_get_map(St, doc).resp.body = CurrentMap
       /\ \A token \in RequestTokens :
            (token # None /\ Val(token) \in TOKENS) => get_map(St, token, doc).resp.body = CurrentMap

\* C4: map assets are only ever added (every stored document stays, unchanged
\* and in place), and GET /api/map and GET /api/admin/map with a valid token
\* answer with the stored document of greatest version, null only when none
\* is stored.
C4_MapAppendOnly ==
  /\ []C4_CurrentIsLatest
  /\ [][/\ Len(mapasset') >= Len(mapasset)
        /\ SubSeq(mapasset', 1, Len(mapasset)) = mapasset]_vars

\* Version 2 was read back as the current map while version 1 is still stored.
C4_Witness ==
  /\ resp.kind = "map" /\ resp.body # None /\ Val(resp.body).version = Some(2)
  /\ Len(mapasset) = 2 /\ mapasset[1].version = Some(1)

C5_LoginOutcome ==
  \A u \in Usernames, p \in Passwords, t \in TokenValues :
    LET out == admin_login(St, u, p, t)
    IN IF u = ADMIN_USERNAME /\ p = ADMIN_PASSWORD
       THEN out.resp = Response(200, "token", t) /\ t \in out.TOKENS
       ELSE /\ out.resp.status = 401 /\ out.resp.kind = "error"
            /\ out.TOKENS = TOKENS /\ SameStore(St, out)

C6_EmptyUpdateIsNoop ==
  \A token \in RequestTokens, c \in Collections, id \in WellFormedIds :
   \A payload \in Updates[c] :
    (/\ token # None /\ Val(token) \in TOKENS
     /\ \A f \in DOMAIN payload : payload[f] = None) =>
      LET out == UpdateOf(St, c, token, id, payload)
      IN /\ IsAck(out.resp, [updated |-> FALSE])
         /\ SameStore(St, out) /\ out.TOKENS = TOKENS

\* An empty update was answered {updated: false} with a POI stored.
C6_Witness ==
  IsAck(resp, [updated |-> FALSE]) /\ Len(poi) > 0

\* C7: an authorized delete with a well-formed id answers {deleted: true}
\* whether or not the id is stored, removes the document of that id and no
\* other (so nothing, when the id is not stored), and a second delete of the
\* same id leaves the state the first one left.
C7_DeleteIdempotent ==
  \A token \in RequestTokens, c \in Collections, id \in WellFormedIds :
    (token # None /\ Val(token) \in TOKENS) =>
      LET out == DeleteOf(St, c, token, id)
          kept(d) == d["_id"] # OidOf(id)
      IN /\ IsAck(out.resp, [deleted |-> TRUE])
         /\ out[c] = SelectSeq(St[c], kept)
         /\ \A other \in Collections \cup {"mapasset"} : other # c => out[other] = St[other]
         /\ out.TOKENS = TOKENS /\ out.oidCounter = oidCounter
         /\ DeleteOf(out, c, token, id) = out

\* A delete was acknowledged, and of two POIs created the second is left.
C7_Witness ==
  /\ IsAck(resp, [deleted |-> TRUE])
  /\ oidCounter = 2 /\ Len(poi) = 1 /\ poi[1]["_id"] = GenObjectId(2)

\* C8: GET /api/lore/search?q=<text> is answered with the list of the lore
\* articles whose title or short description contains <text>, case ignored,
\* and not with a client error: q=forest lists a stored "The Dark Forest".
C8_SearchAnswered ==
  \A t \in SearchTexts :
    (\E i \in 1..Len(lorearticle) : lorearticle[i].title = Some(THE_DARK_FOREST)) =>
      LET out == lore_get(St, Dispatch("GET", <<API, LORE, SEARCH>>), SEARCH, Some(t))
      IN /\ out.resp.status = 200 /\ out.resp.kind = "list"
         /\ \E k \in 1..Len(out.resp.body) : out.resp.body[k].title = Some(THE_DARK_FOREST)

\* C9: GET /api/lore/{id} gives 400 for a malformed id, 404 for a well-formed
\* id with no stored article, and for the id of a stored article its public
\* shape with the id as a string; never a server error, and no collection
\* changes.
C9_LoreClassified ==
  \A id \in LoreSegments :
    LET out == lore_get(St, Dispatch("GET", <<API, LORE, id>>), id, None)
    IN /\ SameStore(St, out) /\ out.TOKENS = TOKENS
       /\ out.resp.status < 500
       /\ IF id \in MalformedIds
          THEN out.resp.status = 400 /\ out.resp.kind = "error"
          ELSE LET at == {i \in 1..Len(lorearticle) : lorearticle[i]["_id"] = OidOf(id)}
               IN IF at = {}
                  THEN out.resp.status = 404 /\ out.resp.kind = "error"
                  ELSE /\ out.resp.status = 200 /\ out.resp.kind = "doc"
                       /\ \E i \in at :
                            Val(out.resp.body) =
                              [id |-> LowerStr(id), title |-> lorearticle[i].title,
                               short_description |-> lorearticle[i].short_description,
                               main_image_url |-> lorearticle[i].main_image_url,
                               content_body |-> lorearticle[i].content_body]

\* A stored article was fetched by its id.
C9_Witness ==
  /\ resp.status = 200 /\ resp.kind = "doc" /\ resp.body # None
  /\ DOMAIN Val(resp.body) = {"id", "title", "short_description", "main_image_url", "content_body"}
  /\ Len(lorearticle) > 0

\* C10: however set_map requests interleave, no two stored map assets share a
\* version, and the greatest stored version is the number of map assets.
C10_VersionsDistinct ==
  /\ \A i, j \in 1..Len(mapasset) : i # j => mapasset[i].version # mapasset[j].version
  /\ MaxVersion(mapasset) = Len(mapasset)

====
